---- MODULE Spec2Model ----
(***************************************************************************)
(* A model of the scene validator toolkit:                                 *)
(*   validator.py           SceneValidator (validate_scene,                *)
(*                          validate_project, generate_report)             *)
(*   gemini_integration.py  GeminiAnalyzer (the three judgment operations) *)
(*   trigger.py             SceneValidatorTrigger (watch_directories,      *)
(*                          process_scene_file, run_continuous_watch)      *)
(*   api.py                 the HTTP facade (/validate/scene,              *)
(*                          /validate/project, /config)                    *)
(*                                                                         *)
(* JSON values are records [t, s, n]: t is the JSON type, s the payload of *)
(* a string, n the value of a number or the length of a container.         *)
(* Python strings are TLA+ strings; an HTML document is the sequence of    *)
(* the chunks it is concatenated from.                                     *)
(***************************************************************************)
EXTENDS Integers, Sequences, FiniteSets, TLC

VARIABLES
    validation_rules,   \* SceneValidator.validation_rules["scene_structure"]["required_metadata"]
    config,             \* SceneValidator.config (the keys the code reads)
    clock,              \* the wall clock read by datetime.now()
    pc,                 \* where the caller of the validator is: idle, validated, reported
    call,               \* the operation called last and its argument
    ret,                \* what that call did: returned a value or raised
    report,             \* what generate_report did on ret's value
    again,              \* what a second validate_scene on the same scene did
    api_key,            \* GeminiAnalyzer.api_key
    gem,                \* the judgment operation called last: requests sent, reply, result
    trigger_config,     \* SceneValidatorTrigger.config["trigger"]
    last_check_time,    \* SceneValidatorTrigger.last_check_time, the scan cursor
    mtime,              \* the file system: each watched file's modification time
    scan,               \* watch_directories in progress: its loops and modified_files
    history,            \* what earlier scans saw and reported
    content,            \* the file system: what each watched file holds
    loop,               \* run_continuous_watch: where it is, the files still to
                        \* process, what process_scene_file returned and did
    config_rest,        \* SceneValidator.config, its entries other than report_format
    http                \* the HTTP request handled last and its response

validatorVars == <<validation_rules, config, pc, call, ret, report, again>>
geminiVars == <<api_key, gem>>
watcherVars == <<trigger_config, last_check_time, mtime, scan, history, content, loop>>
apiVars == <<config_rest, http>>
vars == <<validatorVars, clock, geminiVars, watcherVars, apiVars>>

-----------------------------------------------------------------------------
(* Bounds of the model.                                                    *)

MaxRequired == 3    \* longest required_metadata list
MaxProject == 2     \* longest project list
MaxClock == 1       \* last instant of the wall clock
MaxTime == 2        \* last instant of the wall clock while the watcher runs
MaxText == 6        \* longest reply text of the remote endpoint, in tokens

-----------------------------------------------------------------------------
(* JSON values and Python's view of them.                                  *)

JStr(s) == [t |-> "str", s |-> s, n |-> 0]
JInt(n) == [t |-> "int", s |-> "", n |-> n]
JList(len) == [t |-> "list", s |-> "", n |-> len]
JNull == [t |-> "null", s |-> "", n |-> 0]
Absent == [t |-> "absent", s |-> "", n |-> 0]   \* the key is not in the dict

\* bool(v) of a JSON value: None, "", 0 and empty containers are falsy.
Truthy(v) ==
    CASE v.t = "null" -> FALSE
      [] v.t = "str" -> v.s # ""
      [] v.t = "int" -> v.n # 0
      [] v.t = "list" -> v.n # 0
      [] OTHER -> FALSE

Keys == {"scene_id", "timestamp", "location", "project_id"}

\* A parsed JSON document handed to the validator: a dict (an object) with
\* its items, or a value of another JSON type, which has no items.
Dict(d) == [t |-> "dict", d |-> d]
NonObject(type) == [t |-> type, d |-> [k \in Keys |-> Absent]]

\* `key in data` and data[key] of a dict.
Has(data, key) == data.d[key] # Absent

\* data.get(key, default): only a dict has the method.
HasGet(data) == data.t = "dict"
Get(data, key, default) == IF Has(data, key) THEN data.d[key] ELSE default

-----------------------------------------------------------------------------
(* SceneValidator.validate_scene                                           *)

Returned(value) == [kind |-> "return", exc |-> "", value |-> value]
NoValue == [none |-> TRUE]
Raised(exc) == [kind |-> "raise", exc |-> exc, value |-> NoValue]

\* datetime.now().isoformat()
IsoFormat(now) == "T" \o ToString(now)

\* f"Missing required metadata: {field}"
MissingMessage(field) == "Missing required metadata: " \o field

\* The condition of line 108, presence alone.
IsMissingPresenceOnly(scene_data, field) == ~Has(scene_data, field)

\* The condition of line 108: `field not in scene_data or not scene_data[field]`.
IsMissing(scene_data, field) ==
    \/ ~Has(scene_data, field)
    \/ ~Truthy(scene_data.d[field])

\* The body of the loop of lines 107-110 with line 109 left out.
MarkMissingKeepsValid(results, field) ==
    [results EXCEPT !.errors = Append(@, MissingMessage(field))]

\* The body of the loop of lines 107-110 for a missing field.
MarkMissing(results, field) ==
    [results EXCEPT !.valid = FALSE,
                    !.errors = Append(@, MissingMessage(field))]

\* The loop of lines 107-110 over the rest of required_metadata.
RECURSIVE CheckRequired(_, _, _)
CheckRequired(fields, scene_data, results) ==
    IF fields = <<>> THEN results
    ELSE CheckRequired(Tail(fields), scene_data,
                       IF IsMissing(scene_data, Head(fields))
                       THEN MarkMissing(results, Head(fields))
                       ELSE results)

\* validate_scene with the time of the call as the scene_id of a scene that
\* holds none.
ValidateSceneIdFromClock(rules, scene_data, now) ==
    IF ~HasGet(scene_data) THEN Raised("AttributeError")
    ELSE Returned(CheckRequired(rules, scene_data,
            [scene_id |-> Get(scene_data, "scene_id", JStr(IsoFormat(now))),
             timestamp |-> IsoFormat(now),
             valid |-> TRUE,
             errors |-> <<>>,
             warnings |-> <<>>,
             suggestions |-> <<>>]))

\* validate_scene(scene_data) at instant now: scene_data.get of line 95
\* raises AttributeError on anything but a dict.
validate_scene(rules, scene_data, now) ==
    IF ~HasGet(scene_data) THEN Raised("AttributeError")
    ELSE Returned(CheckRequired(rules, scene_data,
            [scene_id |-> Get(scene_data, "scene_id", JStr("unknown")),
             timestamp |-> IsoFormat(now),
             valid |-> TRUE,
             errors |-> <<>>,
             warnings |-> <<>>,
             suggestions |-> <<>>]))

-----------------------------------------------------------------------------
(* SceneValidator.validate_project                                         *)

\* Lines 147-150 with the two counters swapped.
TallySwapped(results, scene_result) ==
    IF scene_result.valid
    THEN [results EXCEPT !.scene_results = Append(@, scene_result),
                         !.invalid_scenes = @ + 1]
    ELSE [results EXCEPT !.scene_results = Append(@, scene_result),
                         !.valid_scenes = @ + 1]

\* Lines 146-150: the scene's result is appended and counted.
Tally(results, scene_result) ==
    IF scene_result.valid
    THEN [results EXCEPT !.scene_results = Append(@, scene_result),
                         !.valid_scenes = @ + 1]
    ELSE [results EXCEPT !.scene_results = Append(@, scene_result),
                         !.invalid_scenes = @ + 1]

\* The loop of lines 144-150: an exception of validate_scene leaves the loop
\* and the function.
RECURSIVE ProjectLoop(_, _, _, _)
ProjectLoop(rules, scenes, now, results) ==
    IF scenes = <<>> THEN Returned(results)
    ELSE LET r == validate_scene(rules, Head(scenes), now)
         IN IF r.kind = "raise" THEN r
            ELSE ProjectLoop(rules, Tail(scenes), now, Tally(results, r.value))

\* validate_project(project_data) at instant now: line 134 calls .get on the
\* first element of a non-empty list.
validate_project(rules, project_data, now) ==
    IF project_data # <<>> /\ ~HasGet(project_data[1])
    THEN Raised("AttributeError")
    ELSE ProjectLoop(rules, project_data, now,
            [project_id |-> IF project_data # <<>>
                            THEN Get(project_data[1], "project_id", JStr("unknown"))
                            ELSE JStr("unknown"),
             timestamp |-> IsoFormat(now),
             scene_count |-> Len(project_data),
             valid_scenes |-> 0,
             invalid_scenes |-> 0,
             scene_results |-> <<>>,
             project_level_issues |-> <<>>])

-----------------------------------------------------------------------------
(* SceneValidator.generate_report and _generate_html_report                *)

\* str(v) of a JSON value inside an f-string.
PyStr(v) ==
    CASE v.t = "str" -> v.s
      [] v.t = "int" -> ToString(v.n)
      [] v.t = "null" -> "None"
      [] OTHER -> "[]"

\* json.dumps of a leaf value (the containers drawn are empty).
DumpValue(v) ==
    CASE v.t = "str" -> "\"" \o v.s \o "\""
      [] v.t = "int" -> ToString(v.n)
      [] v.t = "null" -> "null"
      [] OTHER -> "[]"

DumpBool(b) == IF b THEN "true" ELSE "false"

\* The indentation json.dumps(indent=2) writes at a nesting level.
RECURSIVE Pad(_)
Pad(level) == IF level = 0 THEN "" ELSE "  " \o Pad(level - 1)

\* items joined by ",\n", each on its own line at the given level.
RECURSIVE JoinLines(_, _)
JoinLines(items, level) ==
    IF items = <<>> THEN ""
    ELSE Pad(level) \o Head(items)
         \o (IF Len(items) > 1 THEN ",\n" ELSE "\n")
         \o JoinLines(Tail(items), level)

\* json.dumps of a list whose items are already serialized.
DumpList(items, level) ==
    IF items = <<>> THEN "[]"
    ELSE "[\n" \o JoinLines(items, level + 1) \o Pad(level) \o "]"

DumpStrings(strs, level) ==
    DumpList([i \in 1..Len(strs) |-> "\"" \o strs[i] \o "\""], level)

\* json.dumps of a SceneResult, keys in insertion order (lines 97-104).
DumpSceneResult(r, level) ==
    "{\n" \o JoinLines(<<
        "\"scene_id\": " \o DumpValue(r.scene_id),
        "\"timestamp\": \"" \o r.timestamp \o "\"",
        "\"valid\": " \o DumpBool(r.valid),
        "\"errors\": " \o DumpStrings(r.errors, level + 1),
        "\"warnings\": " \o DumpStrings(r.warnings, level + 1),
        "\"suggestions\": " \o DumpStrings(r.suggestions, level + 1)
    >>, level + 1) \o Pad(level) \o "}"

\* json.dumps of a ProjectResult, keys in insertion order (lines 133-141).
DumpProjectResult(r, level) ==
    "{\n" \o JoinLines(<<
        "\"project_id\": " \o DumpValue(r.project_id),
        "\"timestamp\": \"" \o r.timestamp \o "\"",
        "\"scene_count\": " \o ToString(r.scene_count),
        "\"valid_scenes\": " \o ToString(r.valid_scenes),
        "\"invalid_scenes\": " \o ToString(r.invalid_scenes),
        "\"scene_results\": " \o DumpList(
            [i \in 1..Len(r.scene_results) |->
                DumpSceneResult(r.scene_results[i], level + 2)], level + 1),
        "\"project_level_issues\": " \o DumpStrings(r.project_level_issues, level + 1)
    >>, level + 1) \o Pad(level) \o "}"

IsProjectResult(validation_results) == "scene_results" \in DOMAIN validation_results

\* json.dumps(validation_results, indent=2), one chunk.
JsonDumps(validation_results) ==
    << IF IsProjectResult(validation_results)
       THEN DumpProjectResult(validation_results, 0)
       ELSE DumpSceneResult(validation_results, 0) >>

\* "".join(f"<li>{x}</li>" for x in items)
ListItems(items) == [i \in 1..Len(items) |-> "<li>" \o items[i] \o "</li>"]

\* The f-string of lines 241-261 for one scene, cut at its substitutions.
SceneHtml(scene) ==
    << "<div class=\"scene\"><h3>Scene: ", PyStr(scene.scene_id),
       " - <span class=\"", (IF scene.valid THEN "valid" ELSE "invalid"), "\">",
       (IF scene.valid THEN "Valid" ELSE "Invalid"),
       "</span></h3><h4>Errors:</h4><ul class=\"issue-list\">" >>
    \o ListItems(scene.errors)
    \o << "</ul><h4>Warnings:</h4><ul class=\"issue-list warning\">" >>
    \o ListItems(scene.warnings)
    \o << "</ul><h4>Suggestions:</h4><ul class=\"issue-list\">" >>
    \o ListItems(scene.suggestions)
    \o << "</ul></div>" >>

\* The loop of lines 238-261.
RECURSIVE SceneResultsHtml(_)
SceneResultsHtml(scenes) ==
    IF scenes = <<>> THEN <<>>
    ELSE SceneHtml(Head(scenes)) \o SceneResultsHtml(Tail(scenes))

\* html_template (lines 199-235) as str.format reads it: each part is the
\* literal text up to the next "{" and the name of the replacement field
\* that "{" opens.  The braces of the <style> rules open fields too.
Part(literal, field) == [literal |-> literal, field |-> field, last |-> FALSE]
LastPart(literal) == [literal |-> literal, field |-> "", last |-> TRUE]

html_template == <<
    Part("<!DOCTYPE html><html><head><title>Scene Validation Report</title><style> body ",
         " font-family"),
    Part(" h1 ", " color"),
    Part(" .summary ", " background-color"),
    Part(" .valid ", " color"),
    Part(" .invalid ", " color"),
    Part(" .warning ", " color"),
    Part(" .scene ", " margin"),
    Part(" .issue-list ", " margin-left"),
    Part("</style></head><body><h1>Scene Validation Report</h1><div class=\"summary\"><h2>Summary</h2><p>Project ID: ",
         "project_id"),
    Part("</p><p>Timestamp: ", "timestamp"),
    Part("</p><p>Total Scenes: ", "scene_count"),
    Part("</p><p>Valid Scenes: <span class=\"valid\">", "valid_scenes"),
    Part("</span></p><p>Invalid Scenes: <span class=\"invalid\">", "invalid_scenes"),
    Part("</span></p></div><h2>Scene Details</h2>", "scene_results"),
    Part("<h2>Project-Level Issues</h2><ul class=\"issue-list\">", "project_issues"),
    LastPart("</ul></body></html>") >>

\* str.format(**kwargs) over the parts: a field that names no keyword
\* argument raises KeyError.
RECURSIVE Format(_, _, _)
Format(parts, kwargs, out) ==
    IF parts = <<>> THEN Returned(out)
    ELSE LET p == Head(parts)
         IN IF p.last THEN Format(Tail(parts), kwargs, Append(out, p.literal))
            ELSE IF p.field \notin DOMAIN kwargs THEN Raised("KeyError")
            ELSE Format(Tail(parts), kwargs, Append(out, p.literal) \o kwargs[p.field])

\* validation_results.get(key, default) of lines 239-274.
ResultGet(validation_results, key, default) ==
    IF key \in DOMAIN validation_results THEN validation_results[key] ELSE default

\* _generate_html_report(validation_results)
generate_html_report(validation_results) ==
    Format(html_template,
           [project_id |-> << IF "project_id" \in DOMAIN validation_results
                              THEN PyStr(validation_results.project_id)
                              ELSE "Unknown" >>,
            timestamp |-> << ResultGet(validation_results, "timestamp", "Unknown") >>,
            scene_count |-> << ToString(ResultGet(validation_results, "scene_count", 0)) >>,
            valid_scenes |-> << ToString(ResultGet(validation_results, "valid_scenes", 0)) >>,
            invalid_scenes |-> << ToString(ResultGet(validation_results, "invalid_scenes", 0)) >>,
            scene_results |-> SceneResultsHtml(ResultGet(validation_results, "scene_results", <<>>)),
            project_issues |-> ListItems(ResultGet(validation_results, "project_level_issues", <<>>))],
           <<>>)

\* str.lower() on the characters a report format is written with.
LowerChar(c) ==
    CASE c = "H" -> "h" [] c = "T" -> "t" [] c = "M" -> "m" [] c = "L" -> "l"
      [] c = "J" -> "j" [] c = "S" -> "s" [] c = "O" -> "o" [] c = "N" -> "n"
      [] c = "X" -> "x"
      [] OTHER -> c
Lower(str) == [i \in 1..Len(str) |-> LowerChar(str[i])]

\* A configuration string, written character by character.
Html == <<"h", "t", "m", "l">>
Json == <<"j", "s", "o", "n">>

\* config.get("report_format", "html")
ConfigReportFormat(cfg) ==
    IF cfg.has_report_format THEN cfg.report_format ELSE Html

\* Lines 178-180 rendering the HTML report for an unknown format.
RenderUnknownAsHtml(format_type, validation_results) ==
    IF format_type = Html \/ format_type # Json
    THEN generate_html_report(validation_results)
    ELSE Returned(JsonDumps(validation_results))

\* Lines 174-180: the report by format.
Render(format_type, validation_results) ==
    IF format_type = Html THEN generate_html_report(validation_results)
    ELSE IF format_type = Json THEN Returned(JsonDumps(validation_results))
    ELSE Returned(JsonDumps(validation_results))

\* generate_report(validation_results, output_path): the report is written
\* to output_path when one is given (lines 182-185) and returned.
generate_report(cfg, validation_results, output_path) ==
    LET format_type == Lower(ConfigReportFormat(cfg))
        r == Render(format_type, validation_results)
    IN [kind |-> r.kind, exc |-> r.exc,
        text |-> IF r.kind = "return" THEN r.value ELSE <<>>,
        output_path |-> output_path,
        written |-> r.kind = "return" /\ output_path # ""]

-----------------------------------------------------------------------------
(* GeminiAnalyzer                                                          *)

\* An optional string: None, or a string that may be empty.
None == [some |-> FALSE, s |-> ""]
Some(str) == [some |-> TRUE, s |-> str]

\* bool(x) of an optional string.
OptTruthy(x) == x.some /\ x.s # ""

\* `a or b` of line 26.
Or(a, b) == IF OptTruthy(a) THEN a ELSE b

\* A reply text is a sequence of tokens: the braces, a string literal, the
\* colon and the comma.
Tokens == {"{", "}", "s", ":", ","}

\* json.loads on a token sequence: the index after the value that starts at
\* i, or 0 when none does.
RECURSIVE ParseValue(_, _)
RECURSIVE ParseMembers(_, _)
ParseValue(text, i) ==
    IF i > Len(text) THEN 0
    ELSE IF text[i] = "s" THEN i + 1
    ELSE IF text[i] = "{"
         THEN IF i + 1 <= Len(text) /\ text[i + 1] = "}" THEN i + 2
              ELSE ParseMembers(text, i + 1)
    ELSE 0
ParseMembers(text, i) ==
    IF i + 1 > Len(text) \/ text[i] # "s" \/ text[i + 1] # ":" THEN 0
    ELSE LET j == ParseValue(text, i + 2)
         IN IF j = 0 \/ j > Len(text) THEN 0
            ELSE IF text[j] = "}" THEN j + 1
            ELSE IF text[j] = "," THEN ParseMembers(text, j + 1)
            ELSE 0

\* Whether json.loads(text) returns (it raises JSONDecodeError otherwise).
JsonLoads(text) == ParseValue(text, 1) = Len(text) + 1

\* str.find and str.rfind: the 0-based index of the first and of the last
\* occurrence, -1 when there is none.
RECURSIVE FindFrom(_, _, _)
FindFrom(text, c, i) ==
    IF i > Len(text) THEN -1
    ELSE IF text[i] = c THEN i - 1
    ELSE FindFrom(text, c, i + 1)
Find(text, c) == FindFrom(text, c, 1)

RECURSIVE RFindFrom(_, _, _)
RFindFrom(text, c, i) ==
    IF i < 1 THEN -1
    ELSE IF text[i] = c THEN i - 1
    ELSE RFindFrom(text, c, i - 1)
RFind(text, c) == RFindFrom(text, c, Len(text))

\* text[a:b] for 0 <= a < b <= len(text).
Slice(text, a, b) == SubSeq(text, a + 1, b)

\* What _call_gemini_api returns: a dict with an "error" key, or the decoded
\* reply body, by the shape of body["candidates"].
ErrorResponse(message) == [shape |-> "error", error |-> message, text |-> <<>>]
TextResponse(text) == [shape |-> "text", error |-> "", text |-> text]
NoCandidatesKey == [shape |-> "no_candidates", error |-> "", text |-> <<>>]
EmptyCandidates == [shape |-> "empty_candidates", error |-> "", text |-> <<>>]

\* What a judgment operation returns.  raw is "none" when the dict has no
\* raw_response key, and names what the key holds otherwise.
Failure(message, raw) ==
    [success |-> FALSE, error |-> message, raw |-> raw, analysis |-> <<>>]
Analysis(json_str) ==
    [success |-> TRUE, error |-> "", raw |-> "none", analysis |-> json_str]

\* Line 256 without the + 1.
JsonEndAtBrace(text) == RFind(text, "}")

\* Line 256: json_end = text.rfind("}") + 1
JsonEnd(text) == RFind(text, "}") + 1

\* Lines 251-252: the text of the first part of the first candidate, "" when
\* a key is missing.
ReplyText(response) == IF response.shape = "text" THEN response.text ELSE <<>>

\* _parse_dialogue_analysis(response), lines 247-271.  Indexing an empty
\* candidates list and a json.loads failure raise inside the try and are
\* turned into a failure by the except clause.
parse_dialogue_analysis(response) ==
    IF response.shape = "error" THEN Failure(response.error, "none")
    ELSE IF response.shape = "empty_candidates"
         THEN Failure("list index out of range", "response")
    ELSE LET text == ReplyText(response)
             json_start == Find(text, "{")
             json_end == JsonEnd(text)
         IN IF json_start >= 0 /\ json_end > json_start
            THEN IF JsonLoads(Slice(text, json_start, json_end))
                 THEN Analysis(Slice(text, json_start, json_end))
                 ELSE Failure("JSONDecodeError", "response")
            ELSE Failure("Could not extract JSON from response", "text")

\* The replies of the remote endpoint to one request: a transport or HTTP
\* failure (RequestException), or a decoded body.
RECURSIVE TextsUpTo(_)
TextsUpTo(n) ==
    IF n = 0 THEN {<<>>}
    ELSE LET shorter == TextsUpTo(n - 1)
         IN shorter \cup {Append(q, x) : q \in {r \in shorter : Len(r) = n - 1},
                                         x \in Tokens}

Replies ==
    {ErrorResponse("RequestException"), NoCandidatesKey, EmptyCandidates}
    \cup {TextResponse(text) : text \in TextsUpTo(MaxText)}

\* What _call_gemini_api does with the key: [requests, response], requests
\* being the number of requests.post calls made.
NotSent == [requests |-> 0, response |-> ErrorResponse("No API key provided")]
Sent(reply) == [requests |-> 1, response |-> reply]

\* _call_gemini_api without the check of lines 204-206.
CallWithoutKeyCheck(key, reply) == Sent(reply)

\* _call_gemini_api(prompt), lines 204-236, the endpoint answering reply.
call_gemini_api(key, reply) ==
    IF ~OptTruthy(key) THEN NotSent ELSE Sent(reply)

\* analyze_dialogue_consistency, analyze_emotional_continuity and
\* analyze_scene_narrative: prompt, call, parse (lines 46-49, 63-66, 79-82).
Analyze(op, key, reply) ==
    LET called == call_gemini_api(key, reply)
    IN [op |-> op,
        requests |-> called.requests,
        response |-> called.response,
        result |-> parse_dialogue_analysis(called.response)]

NoGem == [op |-> "none", requests |-> 0, response |-> NoCandidatesKey,
          result |-> Failure("", "none")]

\* The api_key arguments and GEMINI_API_KEY values a process may start with.
KeyArguments == {None, Some(""), Some("key-arg")}
KeyEnvironment == {None, Some(""), Some("key-env")}

-----------------------------------------------------------------------------
(* The inputs drawn and the state after construction.                      *)

\* The values a scene's fields are drawn from: one truthy string and the
\* falsy values (empty string, zero, null, empty container).
Values == {JStr("S1"), JStr(""), JInt(0), JNull, JList(0)}

RuleFields == {"scene_id", "timestamp", "location"}

\* Scene objects over the fields the rules can name.
Scenes ==
    {Dict(d) : d \in {f \in [Keys -> Values \cup {Absent}] : f["project_id"] = Absent}}

\* JSON documents that are not objects.
NonObjects == {NonObject("list"), NonObject("str"), NonObject("int"), NonObject("null")}

SceneInputs == Scenes \cup NonObjects

SceneOf(scene_id, timestamp, location, project_id) ==
    Dict([k \in Keys |->
            CASE k = "scene_id" -> scene_id
              [] k = "timestamp" -> timestamp
              [] k = "location" -> location
              [] OTHER -> project_id])

\* The elements project lists are drawn from.
ProjectScenes ==
    { SceneOf(JStr("S1"), JStr("S1"), JStr("S1"), JStr("P1")),
      SceneOf(JStr("S1"), JStr("S1"), Absent, Absent),
      SceneOf(JStr(""), JInt(0), JNull, Absent),
      SceneOf(Absent, Absent, Absent, Absent),
      NonObject("list"),
      NonObject("null") }

RECURSIVE SeqsUpTo(_, _)
SeqsUpTo(S, n) ==
    IF n = 0 THEN {<<>>}
    ELSE LET shorter == SeqsUpTo(S, n - 1)
         IN shorter \cup {Append(q, x) : q \in {r \in shorter : Len(r) = n - 1}, x \in S}

ProjectInputs == SeqsUpTo(ProjectScenes, MaxProject)

\* The default rules of lines 73-84.
DefaultRequired == <<"scene_id", "timestamp", "location">>

RuleSets == SeqsUpTo(RuleFields, MaxRequired)

\* The default configuration of lines 52-59.
DefaultConfig == [has_report_format |-> TRUE, report_format |-> Html]

\* The report formats a configuration file may hold.
Formats ==
    { Html, Json, <<"H", "T", "M", "L">>, <<"H", "t", "m", "l">>,
      <<"J", "S", "O", "N">>, <<"x", "m", "l">>, <<"X", "M", "L">>,
      <<"t", "e", "x", "t">>, <<>> }

Configs ==
    {[has_report_format |-> TRUE, report_format |-> f] : f \in Formats}
    \cup {[has_report_format |-> FALSE, report_format |-> <<>>]}

NoScene == NonObject("none")
NoCall == [op |-> "none", scene |-> NoScene, project |-> <<>>]
NoRet == [kind |-> "none", exc |-> "", value |-> NoValue]
NoReport == [kind |-> "none", exc |-> "", text |-> <<>>, output_path |-> "",
             written |-> FALSE]

-----------------------------------------------------------------------------
(* SceneValidatorTrigger.watch_directories                                 *)

\* A file of the file system: its directory, whether its name ends with
\* "_temp" before the extension, and its extension.
File(dir, name, temp, ext) == [dir |-> dir, name |-> name, temp |-> temp, ext |-> ext]

\* str(file_path)
PathOf(file) == file.dir \o "/" \o file.name

\* The files of the file system; the directory "data/incoming" does not exist.
Files ==
    { File("data/scenes", "scene1.json", FALSE, "json"),
      File("data/scenes", "scene2.xml", FALSE, "xml"),
      File("data/scenes", "draft_temp.json", TRUE, "json") }

ExistingDirectories == {"data/scenes"}

\* A glob pattern "*<ext>" or "*_temp<ext>"; ext "*" is the pattern "*".
Pattern(temp, ext) == [temp |-> temp, ext |-> ext]

\* Whether a file name matches a pattern (Path.glob and PurePath.match on a
\* pattern without a directory part).
Matches(file, pattern) ==
    /\ pattern.ext \in {"*", file.ext}
    /\ pattern.temp => file.temp

\* path.glob(pattern) of line 99.
Glob(directory, pattern) ==
    {f \in Files : f.dir = directory /\ Matches(f, pattern)}

\* Line 101: any(file_path.match(ignore) for ignore in ignore_patterns)
Ignored(file, ignore_patterns) ==
    \E i \in 1..Len(ignore_patterns) : Matches(file, ignore_patterns[i])

\* The default trigger configuration of lines 57-64.
DefaultTrigger ==
    [watch_directories |-> <<"data/scenes">>,
     watch_file_patterns |-> <<Pattern(FALSE, "json"), Pattern(FALSE, "xml")>>,
     ignore_patterns |-> <<Pattern(TRUE, "json"), Pattern(FALSE, "bak")>>,
     notification_on_validation |-> TRUE]

\* The trigger configurations a configuration file may hold: the default, a
\* directory that does not exist, a directory listed twice, and patterns
\* that overlap with nothing ignored.
TriggerConfigs ==
    { DefaultTrigger,
      [DefaultTrigger EXCEPT !.watch_directories = <<"data/incoming", "data/scenes">>],
      [DefaultTrigger EXCEPT !.watch_directories = <<"data/scenes", "data/scenes">>,
                             !.watch_file_patterns = <<Pattern(FALSE, "json")>>],
      [DefaultTrigger EXCEPT !.watch_file_patterns = <<Pattern(FALSE, "json"), Pattern(FALSE, "*")>>,
                             !.ignore_patterns = <<>>] }

\* The (directory, pattern) pairs the loops of lines 91-97 go through, in
\* order; a directory that does not exist is skipped (lines 92-94).
RECURSIVE PairsOf(_, _, _)
PairsOf(directory, patterns, i) ==
    IF i > Len(patterns) THEN <<>>
    ELSE <<[directory |-> directory, pattern |-> patterns[i]]>>
         \o PairsOf(directory, patterns, i + 1)

RECURSIVE GlobQueue(_, _)
GlobQueue(watch_dirs, patterns) ==
    IF watch_dirs = <<>> THEN <<>>
    ELSE (IF Head(watch_dirs) \in ExistingDirectories
          THEN PairsOf(Head(watch_dirs), patterns, 1)
          ELSE <<>>)
         \o GlobQueue(Tail(watch_dirs), patterns)

\* The modification time of a link that leads nowhere: Path.glob lists it
\* and os.path.getmtime raises FileNotFoundError.
Dangling == -1

\* Line 106 with >= for >.
NotOlderThan(mod_time, cursor) == mod_time >= cursor

\* Line 106: mod_time > self.last_check_time
ModifiedSince(mod_time, cursor) == mod_time > cursor

\* Lines 108-111: the entry appended to modified_files.
WatchEvent(file, mod_time) == [path |-> PathOf(file), modified_time |-> mod_time]

-----------------------------------------------------------------------------
(* SceneValidatorTrigger.process_scene_file and run_continuous_watch       *)

\* What a file holds: nothing that can be read, text that is not JSON, or a
\* JSON document.
Unreadable == [kind |-> "unreadable", doc |-> NoScene]
NotJson == [kind |-> "malformed", doc |-> NoScene]
JsonFile(doc) == [kind |-> "json", doc |-> doc]

Paths == {PathOf(f) : f \in Files}

\* The files hold no JSON.
NoContent == [p \in Paths |-> NotJson]

\* str(e) of the exceptions process_scene_file catches (line 165).
ExcStr(exc) ==
    CASE exc = "PermissionError" -> "[Errno 13] Permission denied"
      [] exc = "JSONDecodeError" -> "Expecting value: line 1 column 1 (char 0)"
      [] exc = "AttributeError" -> "object has no attribute 'get'"
      [] exc = "KeyError" -> "' font-family'"
      [] OTHER -> exc

\* datetime.now().strftime("%Y%m%d_%H%M%S")
StrfTime(now) == "D" \o ToString(now)

\* Line 136: the report path of a scene processed at instant now.
ReportPath(scene_id, now) ==
    "reports/validation_" \o PyStr(scene_id) \o "_" \o StrfTime(now) \o ".html"

\* Lines 161-167: the outcome of a failure.
FailedOutcome(exc, file_path) ==
    [success |-> FALSE, error |-> ExcStr(exc), file_path |-> file_path]

\* Lines 152-159: the outcome of a success.
SucceededOutcome(scene_id, results, report_path) ==
    [success |-> TRUE,
     scene_id |-> scene_id,
     valid |-> results.valid,
     report_path |-> report_path,
     error_count |-> Len(results.errors),
     warning_count |-> Len(results.warnings)]

\* Lines 146-147: the notification is sent when the configuration asks.
Notification(trigger) ==
    IF trigger.notification_on_validation THEN <<"notify">> ELSE <<>>

\* process_scene_file(file_path) at instant now: what it returns and what it
\* did, in order (validate: line 140 returned; write: line 143 wrote the
\* report; notify: line 147).  Every exception of lines 125-159 is caught
\* at line 161.
process_scene_file(cfg, trigger, rules, file_path, held, now) ==
    IF held.kind = "unreadable"
    THEN [outcome |-> FailedOutcome("PermissionError", file_path), effects |-> <<>>]
    ELSE IF held.kind = "malformed"
    THEN [outcome |-> FailedOutcome("JSONDecodeError", file_path), effects |-> <<>>]
    ELSE IF ~HasGet(held.doc)
    THEN [outcome |-> FailedOutcome("AttributeError", file_path), effects |-> <<>>]
    ELSE LET scene_data == held.doc
             scene_id == Get(scene_data, "scene_id", JStr("unknown"))
             report_path == ReportPath(scene_id, now)
             results == validate_scene(rules, scene_data, now)
         IN IF results.kind = "raise"
            THEN [outcome |-> FailedOutcome(results.exc, file_path), effects |-> <<>>]
            ELSE LET written == generate_report(cfg, results.value, report_path)
                 IN IF written.kind = "raise"
                    THEN [outcome |-> FailedOutcome(written.exc, file_path),
                          effects |-> <<"validate">>]
                    ELSE [outcome |-> SucceededOutcome(scene_id, results.value,
                                                       report_path),
                          effects |-> <<"validate">>
                                      \o (IF written.written THEN <<"write">> ELSE <<>>)
                                      \o Notification(trigger)]

\* run_continuous_watch: not running (watch_directories is called on its
\* own), or at line 201 (watching), in the loop of lines 203-206
\* (processing), or left (stopped, with the exception that ended it).
\* done holds, for the files of the latest scan processed so far, the path
\* and what process_scene_file returned and did.
LoopOff == [at |-> "off", todo |-> <<>>, done |-> <<>>, cause |-> ""]
LoopWatching == [at |-> "watching", todo |-> <<>>, done |-> <<>>, cause |-> ""]

\* The loop after watch_directories returned modified_files (line 201).
AfterScan(l, modified_files) ==
    IF l.at = "off" THEN l
    ELSE [at |-> "processing", todo |-> modified_files, done |-> <<>>, cause |-> ""]

\* The loop after an exception left watch_directories: lines 212-214 log it
\* and raise it again.
AfterScanRaised(l, exc) ==
    IF l.at = "off" THEN l
    ELSE [at |-> "stopped", todo |-> <<>>, done |-> <<>>, cause |-> exc]

\* watch_directories at rest and in progress: the globs still to run, the
\* files the running glob has still to yield, and modified_files.
NoScan == [running |-> FALSE, queue |-> <<>>, glob |-> {}, modified_files |-> <<>>]

\* What the earlier scans saw: the cursor the latest scan compares with, per
\* path the modification time the scan before the latest read last (-1: it
\* read none), the same for the latest scan, the (path, time) pairs the
\* scans before the latest reported, and the files written while the latest
\* finished scan ran, after it read their modification time.
NeverSeen == [f \in Files |-> -1]
NoHistory == [cursor |-> 0, seen_before |-> NeverSeen, seen |-> NeverSeen,
              reported_before |-> {}, scans |-> 0, late |-> {}]

-----------------------------------------------------------------------------
(* The HTTP facade (api.py)                                                *)

\* The body of a request: none, text that is not JSON, or a JSON document
\* (an object, an array of documents, or a string, a number or null).
NoBody == [kind |-> "missing", object |-> NoScene, array |-> <<>>, scalar |-> JNull]
MalformedBody == [kind |-> "malformed", object |-> NoScene, array |-> <<>>, scalar |-> JNull]
ObjectBody(doc) == [kind |-> "object", object |-> doc, array |-> <<>>, scalar |-> JNull]
ArrayBody(docs) == [kind |-> "array", object |-> NoScene, array |-> docs, scalar |-> JNull]
ScalarBody(v) == [kind |-> "scalar", object |-> NoScene, array |-> <<>>, scalar |-> v]

\* None, as request.json gives it for no body.
PyNone == [kind |-> "none", object |-> NoScene, array |-> <<>>, scalar |-> JNull]

\* request.json of lines 41 and 61.  Text that is not JSON raises
\* BadRequest; with no body Flask returns None or raises, by its version and
\* the request's content type.
RequestJson(body) ==
    CASE body.kind = "malformed" -> {Raised("BadRequest")}
      [] body.kind = "missing" -> {Returned(PyNone), Raised("BadRequest")}
      [] OTHER -> {Returned(body)}

\* bool(x) of what request.json returned: None, {}, [], "", 0 and null are
\* falsy.
PyTruthy(x) ==
    CASE x.kind = "none" -> FALSE
      [] x.kind = "object" -> \E k \in Keys : Has(x.object, k)
      [] x.kind = "array" -> x.array # <<>>
      [] OTHER -> Truthy(x.scalar)

\* isinstance(x, list)
IsList(x) == x.kind = "array"

\* The document validate_scene is handed.
AsDocument(x) ==
    CASE x.kind = "object" -> x.object
      [] x.kind = "array" -> NonObject("list")
      [] OTHER -> NonObject(x.scalar.t)

\* jsonify(...) with its status: the error message or the result.
ErrorResponse400(message) == [status |-> 400, error |-> message, results |-> NoValue]
ErrorResponse500(exc) == [status |-> 500, error |-> exc, results |-> NoValue]
OkResponse(results) == [status |-> 200, error |-> "", results |-> results]

\* Lines 40-50 after request.json gave parsed, at instant now.
validate_scene_endpoint(rules, parsed, now) ==
    IF parsed.kind = "raise" THEN ErrorResponse500(parsed.exc)
    ELSE IF ~PyTruthy(parsed.value)
    THEN ErrorResponse400("No scene data provided")
    ELSE LET results == validate_scene(rules, AsDocument(parsed.value), now)
         IN IF results.kind = "raise" THEN ErrorResponse500(results.exc)
            ELSE OkResponse(results.value)

\* Lines 60-70 after request.json gave parsed, at instant now.
validate_project_endpoint(rules, parsed, now) ==
    IF parsed.kind = "raise" THEN ErrorResponse500(parsed.exc)
    ELSE IF ~PyTruthy(parsed.value) \/ ~IsList(parsed.value)
    THEN ErrorResponse400("Invalid project data. Expected array of scenes.")
    ELSE LET results == validate_project(rules, parsed.value.array, now)
         IN IF results.kind = "raise" THEN ErrorResponse500(results.exc)
            ELSE OkResponse(results.value)

\* validator.config.items(): the entries other than report_format, and
\* report_format when the configuration holds it.
ConfigItems(cfg, rest) ==
    [k \in DOMAIN rest \cup (IF cfg.has_report_format THEN {"report_format"} ELSE {}) |->
        IF k \in DOMAIN rest THEN rest[k] ELSE cfg.report_format]

\* Line 76 with nothing left out.
WholeConfig(items) == items

\* Line 76: {k: v for k, v in validator.config.items() if k not in ['api_key']}
SafeConfig(items) == [k \in DOMAIN items \ {"api_key"} |-> items[k]]

\* Lines 75-77.
get_config(cfg, rest) ==
    [status |-> 200, error |-> "", results |-> SafeConfig(ConfigItems(cfg, rest))]

\* The default configuration of lines 52-59 without report_format.
DefaultRest ==
    [k \in {"api_key", "project_id", "storage_bucket", "verbose_logging"} |->
        IF k = "verbose_logging" THEN JInt(0) ELSE JStr("")]

\* The entries a configuration file may hold besides report_format: the
\* default ones for no file, else any of these keys with the credential set
\* or empty.
ConfigRests ==
    {DefaultRest} \cup
    UNION {[keys -> {JStr("secret"), JStr("")}] :
              keys \in SUBSET {"api_key", "project_id", "gemini"}}

NoRequest == [route |-> "none", body |-> NoBody,
              response |-> [status |-> 0, error |-> "", results |-> NoValue]]

ApiUnused ==
    /\ config_rest = DefaultRest
    /\ http = NoRequest

ValidatorAtRest ==
    /\ validation_rules = DefaultRequired
    /\ config = DefaultConfig
    /\ pc = "idle"
    /\ call = NoCall
    /\ ret = NoRet
    /\ report = NoReport
    /\ again = NoRet

GeminiUnused ==
    /\ api_key = None
    /\ gem = NoGem

WatcherUnused ==
    /\ trigger_config = DefaultTrigger
    /\ last_check_time = 0
    /\ mtime = [f \in Files |-> 0]
    /\ scan = NoScan
    /\ history = NoHistory
    /\ content = NoContent
    /\ loop = LoopOff

\* SceneValidator.__init__ with a rules file holding any of the rule sets
\* and no configuration file.
Init ==
    /\ validation_rules \in RuleSets
    /\ config = DefaultConfig
    /\ clock = 0
    /\ pc = "idle"
    /\ call = NoCall
    /\ ret = NoRet
    /\ report = NoReport
    /\ again = NoRet
    /\ GeminiUnused
    /\ WatcherUnused
    /\ ApiUnused

\* SceneValidator.__init__ with a configuration file holding any of the
\* report formats and no rules file.
InitReport ==
    /\ validation_rules = DefaultRequired
    /\ config \in Configs
    /\ clock = 0
    /\ pc = "idle"
    /\ call = NoCall
    /\ ret = NoRet
    /\ report = NoReport
    /\ again = NoRet
    /\ GeminiUnused
    /\ WatcherUnused
    /\ ApiUnused

-----------------------------------------------------------------------------
(* The operations.                                                         *)

\* A caller validates one parsed JSON document.
ValidateScene ==
    /\ pc = "idle"
    /\ \E scene_data \in SceneInputs :
        /\ call' = [op |-> "validate_scene", scene |-> scene_data, project |-> <<>>]
        /\ ret' = validate_scene(validation_rules, scene_data, clock)
    /\ pc' = "validated"
    /\ UNCHANGED <<validation_rules, config, clock, report, again, geminiVars,
                   watcherVars, apiVars>>

\* Time passes while a caller holds the result of validate_scene.
Wait ==
    /\ pc \in {"validated", "waited"}
    /\ call.op = "validate_scene"
    /\ clock < MaxClock
    /\ clock' = clock + 1
    /\ pc' = "waited"
    /\ UNCHANGED <<validation_rules, config, call, ret, report, again, geminiVars,
                   watcherVars, apiVars>>

\* The caller validates the scene it holds a result for once more, at once
\* or later.
ValidateSceneAgain ==
    /\ pc \in {"validated", "waited"}
    /\ call.op = "validate_scene"
    /\ again' = validate_scene(validation_rules, call.scene, clock)
    /\ pc' = "revalidated"
    /\ UNCHANGED <<validation_rules, config, clock, call, ret, report, geminiVars,
                   watcherVars, apiVars>>

\* A caller validates a list of parsed JSON documents.
ValidateProject ==
    /\ pc = "idle"
    /\ \E project_data \in ProjectInputs :
        /\ call' = [op |-> "validate_project", scene |-> NoScene, project |-> project_data]
        /\ ret' = validate_project(validation_rules, project_data, clock)
    /\ pc' = "validated"
    /\ UNCHANGED <<validation_rules, config, clock, report, again, geminiVars,
                   watcherVars, apiVars>>

\* The caller renders the result it holds, with or without an output path.
GenerateReport ==
    /\ pc = "validated"
    /\ ret.kind = "return"
    /\ \E output_path \in {"", "report.html"} :
        report' = generate_report(config, ret.value, output_path)
    /\ pc' = "reported"
    /\ UNCHANGED <<validation_rules, config, clock, call, ret, again, geminiVars,
                   watcherVars, apiVars>>

\* The caller is done with the results and the report.
Discard ==
    /\ pc \in {"validated", "waited", "revalidated", "reported"}
    /\ pc' = "idle"
    /\ call' = NoCall
    /\ ret' = NoRet
    /\ report' = NoReport
    /\ again' = NoRet
    /\ UNCHANGED <<validation_rules, config, clock, geminiVars, watcherVars, apiVars>>

\* Time passes between calls.
Tick ==
    /\ pc = "idle"
    /\ clock < MaxClock
    /\ clock' = clock + 1
    /\ UNCHANGED <<validation_rules, config, pc, call, ret, report, again, geminiVars,
                   watcherVars, apiVars>>

Next ==
    \/ ValidateScene
    \/ ValidateProject
    \/ GenerateReport
    \/ Discard
    \/ Tick

Spec == Init /\ [][Next]_vars

SpecReport == InitReport /\ [][Next]_vars

\* A caller that validates a scene, and validates it again at once or later.
NextTwice ==
    \/ ValidateScene
    \/ Wait
    \/ ValidateSceneAgain
    \/ Discard
    \/ Tick

SpecTwice == Init /\ [][NextTwice]_vars

-----------------------------------------------------------------------------
(* The LLM Judgment Client as a state machine.                             *)

\* GeminiAnalyzer.__init__ (line 26); the validator is not used.
InitGemini ==
    /\ ValidatorAtRest
    /\ clock = 0
    /\ WatcherUnused
    /\ \E argument \in KeyArguments, environment \in KeyEnvironment :
            api_key = Or(argument, environment)
    /\ gem = NoGem
    /\ ApiUnused

AnalyzeDialogueConsistency ==
    /\ gem.op = "none"
    /\ \E reply \in Replies : gem' = Analyze("dialogue", api_key, reply)
    /\ UNCHANGED <<validatorVars, clock, api_key, watcherVars, apiVars>>

AnalyzeEmotionalContinuity ==
    /\ gem.op = "none"
    /\ \E reply \in Replies : gem' = Analyze("emotion", api_key, reply)
    /\ UNCHANGED <<validatorVars, clock, api_key, watcherVars, apiVars>>

AnalyzeSceneNarrative ==
    /\ gem.op = "none"
    /\ \E reply \in Replies : gem' = Analyze("narrative", api_key, reply)
    /\ UNCHANGED <<validatorVars, clock, api_key, watcherVars, apiVars>>

\* The caller is done with the judgment (line 311).
DiscardJudgment ==
    /\ gem.op # "none"
    /\ gem' = NoGem
    /\ UNCHANGED <<validatorVars, clock, api_key, watcherVars, apiVars>>

NextGemini ==
    \/ AnalyzeDialogueConsistency
    \/ AnalyzeEmotionalContinuity
    \/ AnalyzeSceneNarrative
    \/ DiscardJudgment

SpecGemini == InitGemini /\ [][NextGemini]_vars

-----------------------------------------------------------------------------
(* The Directory Watcher as a state machine.                               *)

\* SceneValidatorTrigger.__init__ (lines 37-39) at instant 1, the files
\* written at or before it.
InitWatcher ==
    /\ ValidatorAtRest
    /\ GeminiUnused
    /\ clock = 1
    /\ trigger_config \in TriggerConfigs
    /\ last_check_time = clock
    /\ mtime \in [Files -> 0..1]
    /\ scan = NoScan
    /\ history = [NoHistory EXCEPT !.cursor = clock]
    /\ content = NoContent
    /\ loop = LoopOff
    /\ ApiUnused

\* watch_directories is called (lines 73-88), on its own or at line 201.
ScanBegin ==
    /\ ~scan.running
    /\ loop.at \in {"off", "watching"}
    /\ scan' = [running |-> TRUE,
                queue |-> GlobQueue(trigger_config.watch_directories,
                                    trigger_config.watch_file_patterns),
                glob |-> {},
                modified_files |-> <<>>]
    /\ history' = [cursor |-> last_check_time,
                   seen_before |-> history.seen,
                   seen |-> NeverSeen,
                   reported_before |-> history.reported_before \cup
                        {<<scan.modified_files[i].path, scan.modified_files[i].modified_time>> :
                            i \in 1..Len(scan.modified_files)},
                   scans |-> history.scans,
                   late |-> history.late]
    /\ UNCHANGED <<validatorVars, clock, geminiVars, trigger_config, last_check_time,
                   mtime, content, loop, apiVars>>

\* The next glob of lines 97-99 starts.
ScanGlob ==
    /\ scan.running
    /\ scan.glob = {}
    /\ scan.queue # <<>>
    /\ scan' = [scan EXCEPT !.queue = Tail(@),
                            !.glob = Glob(Head(scan.queue).directory,
                                          Head(scan.queue).pattern)]
    /\ UNCHANGED <<validatorVars, clock, geminiVars, trigger_config, last_check_time,
                   mtime, history, content, loop, apiVars>>

\* The running glob yields a file (lines 99-111).  os.path.getmtime of line
\* 105 raises on a link that leads nowhere: the exception leaves
\* watch_directories, modified_files is lost and the cursor stays.
ScanExamine ==
    /\ scan.running
    /\ \E file \in scan.glob :
        IF Ignored(file, trigger_config.ignore_patterns)
        THEN /\ scan' = [scan EXCEPT !.glob = @ \ {file}]
             /\ UNCHANGED <<history, loop>>
        ELSE IF mtime[file] = Dangling
        THEN /\ scan' = NoScan
             /\ loop' = AfterScanRaised(loop, "FileNotFoundError")
             /\ UNCHANGED history
        ELSE /\ scan' = [scan EXCEPT
                    !.glob = @ \ {file},
                    !.modified_files =
                        IF ModifiedSince(mtime[file], last_check_time)
                        THEN Append(@, WatchEvent(file, mtime[file]))
                        ELSE @]
             /\ history' = [history EXCEPT !.seen[file] = mtime[file]]
             /\ UNCHANGED loop
    /\ UNCHANGED <<validatorVars, clock, geminiVars, trigger_config, last_check_time,
                   mtime, content, apiVars>>

\* The loops are over: the cursor moves to now and modified_files is
\* returned (lines 113-114), to the loop of line 203 when it called.
ScanEnd ==
    /\ scan.running
    /\ scan.glob = {}
    /\ scan.queue = <<>>
    /\ last_check_time' = clock
    /\ scan' = [scan EXCEPT !.running = FALSE]
    /\ history' = [history EXCEPT
            !.scans = IF @ < 2 THEN @ + 1 ELSE @,
            !.late = {f \in Files : history.seen[f] \notin {-1, mtime[f]}}]
    /\ loop' = AfterScan(loop, scan.modified_files)
    /\ UNCHANGED <<validatorVars, clock, geminiVars, trigger_config, mtime, content, apiVars>>

\* Someone writes a watched file: its modification time becomes now.
ModifyFile ==
    /\ \E file \in Files :
        /\ mtime[file] # clock
        /\ mtime' = [mtime EXCEPT ![file] = clock]
    /\ UNCHANGED <<validatorVars, clock, geminiVars, trigger_config, last_check_time,
                   scan, history, content, loop, apiVars>>

\* Time passes.
WatchTick ==
    /\ clock < MaxTime
    /\ clock' = clock + 1
    /\ UNCHANGED <<validatorVars, geminiVars, watcherVars, apiVars>>

NextWatcher ==
    \/ ScanBegin
    \/ ScanGlob
    \/ ScanExamine
    \/ ScanEnd
    \/ ModifyFile
    \/ WatchTick

SpecWatcher == InitWatcher /\ [][NextWatcher]_vars

-----------------------------------------------------------------------------
(* The watch loop as a state machine.                                      *)

\* What scene1.json may hold; the other files hold no JSON (scene2.xml is
\* XML).
Scene1 == "data/scenes/scene1.json"
Scene1Contents ==
    { JsonFile(SceneOf(JStr("S1"), JStr("S1"), Absent, Absent)),
      JsonFile(NonObject("list")),
      Unreadable }

\* The report format and the notification setting the loop runs with: the
\* defaults, JSON reports, and JSON reports without notifications.
JsonReports == [has_report_format |-> TRUE, report_format |-> Json]
LoopSettings ==
    { [config |-> DefaultConfig, trigger |-> DefaultTrigger],
      [config |-> JsonReports, trigger |-> DefaultTrigger],
      [config |-> JsonReports,
       trigger |-> [DefaultTrigger EXCEPT !.notification_on_validation = FALSE]] }

\* The files at the start: written before the trigger was built, one of
\* them possibly a link that leads nowhere.
LoopFileTimes ==
    {[f \in Files |-> IF f.name = link THEN Dangling ELSE 0] :
        link \in {"", "scene2.xml"}}

\* SceneValidatorTrigger.__init__ and the call of run_continuous_watch
\* (lines 37-39, 187-198) at instant 1.
InitLoop ==
    /\ validation_rules = DefaultRequired
    /\ \E setting \in LoopSettings :
        /\ config = setting.config
        /\ trigger_config = setting.trigger
    /\ pc = "idle"
    /\ call = NoCall
    /\ ret = NoRet
    /\ report = NoReport
    /\ again = NoRet
    /\ GeminiUnused
    /\ clock = 1
    /\ last_check_time = clock
    /\ mtime \in LoopFileTimes
    /\ scan = NoScan
    /\ history = [NoHistory EXCEPT !.cursor = clock]
    /\ \E held \in Scene1Contents : content = [NoContent EXCEPT ![Scene1] = held]
    /\ loop = LoopWatching
    /\ ApiUnused

\* Lines 203-206: the next file of modified_files is processed.
ProcessSceneFile ==
    /\ loop.at = "processing"
    /\ loop.todo # <<>>
    /\ LET file_path == Head(loop.todo).path
           processed == process_scene_file(config, trigger_config, validation_rules,
                                           file_path, content[file_path], clock)
       IN loop' = [loop EXCEPT
                !.todo = Tail(@),
                !.done = Append(@, [file_path |-> file_path,
                                    outcome |-> processed.outcome,
                                    effects |-> processed.effects])]
    /\ UNCHANGED <<validatorVars, clock, geminiVars, trigger_config, last_check_time,
                   mtime, scan, history, content, apiVars>>

\* Line 209: every file is processed and the loop sleeps until the next scan.
Sleep ==
    /\ loop.at = "processing"
    /\ loop.todo = <<>>
    /\ loop' = [loop EXCEPT !.at = "watching"]
    /\ UNCHANGED <<validatorVars, clock, geminiVars, trigger_config, last_check_time,
                   mtime, scan, history, content, apiVars>>

\* Lines 210-211: the user interrupts the loop, wherever it is.
KeyboardInterrupt ==
    /\ loop.at \in {"watching", "processing"}
    /\ loop' = [at |-> "stopped", todo |-> <<>>, done |-> loop.done,
                cause |-> "KeyboardInterrupt"]
    /\ scan' = NoScan
    /\ UNCHANGED <<validatorVars, clock, geminiVars, trigger_config, last_check_time,
                   mtime, history, content, apiVars>>

NextLoop ==
    \/ ScanBegin
    \/ ScanGlob
    \/ ScanExamine
    \/ ScanEnd
    \/ ProcessSceneFile
    \/ Sleep
    \/ KeyboardInterrupt
    \/ ModifyFile
    \/ WatchTick

SpecLoop == InitLoop /\ [][NextLoop]_vars

-----------------------------------------------------------------------------
(* The HTTP facade as a state machine.                                     *)

\* The bodies requests carry.
SceneBodies ==
    {NoBody, MalformedBody}
    \cup {ObjectBody(doc) : doc \in ProjectScenes \ NonObjects}
    \cup {ArrayBody(docs) : docs \in ProjectInputs}
    \cup {ScalarBody(v) : v \in {JStr("S1"), JStr(""), JInt(0), JNull}}

\* api.py is loaded: validator = SceneValidator() of line 17, its
\* configuration from any configuration file.
InitApi ==
    /\ validation_rules = DefaultRequired
    /\ config \in {DefaultConfig, JsonReports,
                   [has_report_format |-> FALSE, report_format |-> <<>>]}
    /\ clock = 0
    /\ pc = "idle"
    /\ call = NoCall
    /\ ret = NoRet
    /\ report = NoReport
    /\ again = NoRet
    /\ GeminiUnused
    /\ WatcherUnused
    /\ config_rest \in ConfigRests
    /\ http = NoRequest

\* POST /validate/scene (lines 32-50).
PostValidateScene ==
    /\ http.route = "none"
    /\ \E body \in SceneBodies : \E parsed \in RequestJson(body) :
        http' = [route |-> "/validate/scene", body |-> body,
                 response |-> validate_scene_endpoint(validation_rules, parsed, clock)]
    /\ UNCHANGED <<validatorVars, clock, geminiVars, watcherVars, config_rest>>

\* POST /validate/project (lines 52-70).
PostValidateProject ==
    /\ http.route = "none"
    /\ \E body \in SceneBodies : \E parsed \in RequestJson(body) :
        http' = [route |-> "/validate/project", body |-> body,
                 response |-> validate_project_endpoint(validation_rules, parsed, clock)]
    /\ UNCHANGED <<validatorVars, clock, geminiVars, watcherVars, config_rest>>

\* GET /config (lines 72-81).
GetConfig ==
    /\ http.route = "none"
    /\ http' = [route |-> "/config", body |-> NoBody,
                response |-> get_config(config, config_rest)]
    /\ UNCHANGED <<validatorVars, clock, geminiVars, watcherVars, config_rest>>

\* The response is sent and the server waits for the next request.
Respond ==
    /\ http.route # "none"
    /\ http' = NoRequest
    /\ UNCHANGED <<validatorVars, clock, geminiVars, watcherVars, config_rest>>

\* Time passes between requests.
ApiTick ==
    /\ http.route = "none"
    /\ Tick

NextApi ==
    \/ PostValidateScene
    \/ PostValidateProject
    \/ GetConfig
    \/ Respond
    \/ ApiTick

SpecApi == InitApi /\ [][NextApi]_vars

-----------------------------------------------------------------------------
(* Properties of the Scene Validator (checked under Spec).                 *)

\* The falsy values the specification lists: empty string, zero, empty
\* container, null.
ListedFalsy == {JStr(""), JInt(0), JList(0), JNull}

AbsentOrFalsy(scene_data, field) ==
    \/ scene_data.d[field] = Absent
    \/ scene_data.d[field] \in ListedFalsy

SceneCallOnObject == call.op = "validate_scene" /\ call.scene.t = "dict"

\* C1: for a scene object, errors is exactly "Missing required metadata: <f>"
\* for each field f of required_metadata that is absent or falsy, in the
\* declared order, and nothing else.
C1_ErrorsAreTheMissingFields ==
    SceneCallOnObject =>
        /\ ret.kind = "return"
        /\ LET missing == SelectSeq(validation_rules,
                                    LAMBDA f : AbsentOrFalsy(call.scene, f))
           IN ret.value.errors =
                [i \in 1..Len(missing) |-> "Missing required metadata: " \o missing[i]]

\* C1 witness: three required fields, one truthy, one present but falsy, one
\* absent, and the two errors reported.
C1_Witness ==
    /\ SceneCallOnObject
    /\ ret.kind = "return"
    /\ validation_rules = <<"location", "scene_id", "timestamp">>
    /\ call.scene.d["location"] = JInt(0)
    /\ call.scene.d["scene_id"] = JStr("S1")
    /\ call.scene.d["timestamp"] = Absent
    /\ Len(ret.value.errors) = 2

\* The SceneResults a returned value holds: itself, or its scene_results.
SceneResultsOf(value) ==
    IF IsProjectResult(value)
    THEN {value.scene_results[i] : i \in 1..Len(value.scene_results)}
    ELSE {value}

\* C2: in every SceneResult returned, directly or inside a ProjectResult,
\* valid is false iff errors is non-empty; a scene holding every required
\* field with a truthy value yields valid = true and no errors.
C2_ValidIffNoErrors ==
    ret.kind = "return" =>
        /\ \A r \in SceneResultsOf(ret.value) : (r.valid = FALSE) <=> (r.errors # <<>>)
        /\ (/\ SceneCallOnObject
            /\ \A i \in 1..Len(validation_rules) :
                    ~AbsentOrFalsy(call.scene, validation_rules[i]))
           => (ret.value.valid /\ ret.value.errors = <<>>)

\* C2 witness: a project result holding a valid and an invalid scene.
C2_Witness ==
    /\ call.op = "validate_project"
    /\ ret.kind = "return"
    /\ \E r1, r2 \in SceneResultsOf(ret.value) :
            r1.valid /\ r1.errors = <<>> /\ ~r2.valid /\ r2.errors # <<>>

\* C3: validate_scene never raises; a document that is not an object gives
\* valid = false and one error per required field.
C3_NonObjectGivesAllErrors ==
    (call.op = "validate_scene" /\ call.scene.t # "dict") =>
        /\ ret.kind = "return"
        /\ ~ret.value.valid
        /\ Len(ret.value.errors) = Len(validation_rules)

AllObjects(project_data) ==
    \A i \in 1..Len(project_data) : project_data[i].t = "dict"

\* C4: for a list of scene objects, validate_project returns scene_count =
\* the input length = len(scene_results), valid_scenes + invalid_scenes =
\* scene_count, valid_scenes = the number of valid scene_results, and
\* scene_results[i] = the result of the i-th scene; all zero and empty for [].
C4_ProjectCounts ==
    (call.op = "validate_project" /\ AllObjects(call.project)) =>
        /\ ret.kind = "return"
        /\ ret.value.scene_count = Len(call.project)
        /\ Len(ret.value.scene_results) = ret.value.scene_count
        /\ ret.value.valid_scenes + ret.value.invalid_scenes = ret.value.scene_count
        /\ ret.value.valid_scenes =
             Cardinality({i \in 1..Len(ret.value.scene_results) :
                            ret.value.scene_results[i].valid})
        /\ \A i \in 1..Len(call.project) :
             Returned(ret.value.scene_results[i]) =
                validate_scene(validation_rules, call.project[i], clock)
        /\ call.project = <<>> =>
             /\ ret.value.scene_count = 0
             /\ ret.value.valid_scenes = 0
             /\ ret.value.invalid_scenes = 0
             /\ ret.value.scene_results = <<>>

\* C4 witness: a project of two objects, the first invalid, the second valid.
C4_Witness ==
    /\ call.op = "validate_project"
    /\ AllObjects(call.project)
    /\ Len(call.project) = 2
    /\ ret.kind = "return"
    /\ ~ret.value.scene_results[1].valid
    /\ ret.value.scene_results[2].valid
    /\ ret.value.valid_scenes = 1

\* C5: a project list holding a document that is not an object still gets a
\* ProjectResult with a result for every element, that element invalid.
C5_MalformedSceneIsIsolated ==
    (call.op = "validate_project" /\ ~AllObjects(call.project)) =>
        /\ ret.kind = "return"
        /\ Len(ret.value.scene_results) = Len(call.project)
        /\ \A i \in 1..Len(call.project) :
             call.project[i].t # "dict" => ~ret.value.scene_results[i].valid

-----------------------------------------------------------------------------
(* Properties of the Report Renderer.                                      *)

SameIgnoringCase(a, b) ==
    /\ Len(a) = Len(b)
    /\ \A i \in 1..Len(a) : LowerChar(a[i]) = LowerChar(b[i])

JsonConfig == [has_report_format |-> TRUE, report_format |-> Json]

UnknownFormatReported ==
    /\ pc = "reported"
    /\ config.has_report_format
    /\ ~SameIgnoringCase(config.report_format, Html)
    /\ ~SameIgnoringCase(config.report_format, Json)

\* C6 (under SpecReport): with a report format that is neither "html" nor
\* "json", ignoring case, generate_report does not fail and returns the
\* string generate_report returns with format "json" on the same result.
C6_UnknownFormatIsJson ==
    UnknownFormatReported =>
        /\ report.kind = "return"
        /\ report.text = generate_report(JsonConfig, ret.value, report.output_path).text
        /\ generate_report(JsonConfig, ret.value, report.output_path).kind = "return"

\* C6 witness: format "XML" and the report of a project result with a scene.
C6_Witness ==
    /\ UnknownFormatReported
    /\ config.report_format = <<"X", "M", "L">>
    /\ call.op = "validate_project"
    /\ Len(ret.value.scene_results) = 2
    /\ report.kind = "return"
    /\ report.text # <<>>

\* The status labels of an HTML report, in order.
StatusLabels(text) == SelectSeq(text, LAMBDA chunk : chunk \in {"Valid", "Invalid"})

Label(scene_result) == IF scene_result.valid THEN "Valid" ELSE "Invalid"

\* C7: with format "html", generate_report returns a report for every
\* validation result, holding for each validated scene the label "Valid" or
\* "Invalid" by its valid flag, for a ProjectResult and for a lone SceneResult.
C7_HtmlReportLabelsEveryScene ==
    (pc = "reported" /\ Lower(ConfigReportFormat(config)) = Html) =>
        /\ report.kind = "return"
        /\ StatusLabels(report.text) =
             IF IsProjectResult(ret.value)
             THEN [i \in 1..Len(ret.value.scene_results) |->
                        Label(ret.value.scene_results[i])]
             ELSE << Label(ret.value) >>

-----------------------------------------------------------------------------
(* Properties of the LLM Judgment Client (checked under SpecGemini).       *)

Judged == gem.op \in {"dialogue", "emotion", "narrative"}

NoCredential == ~api_key.some \/ api_key.s = ""

\* C8: with no credential configured, each of the three judgment operations
\* returns exactly {success: false, error: "No API key provided"} and sends
\* no network request.
C8_NoKeyNoRequest ==
    (Judged /\ NoCredential) =>
        /\ gem.result = [success |-> FALSE, error |-> "No API key provided",
                         raw |-> "none", analysis |-> <<>>]
        /\ gem.requests = 0

\* C8 witness: the narrative judgment called with neither argument nor
\* environment variable.
C8_Witness ==
    /\ gem.op = "narrative"
    /\ api_key = None
    /\ gem.requests = 0
    /\ ~gem.result.success

\* The positions (from 1) of a token in a text.
Positions(text, c) == {i \in 1..Len(text) : text[i] = c}
Least(S) == CHOOSE i \in S : \A j \in S : i <= j
Greatest(S) == CHOOSE i \in S : \A j \in S : j <= i

\* The substring from the first "{" to the last "}" inclusive exists and
\* parses as JSON.
EmbeddedObjectParses(text) ==
    /\ Positions(text, "{") # {}
    /\ Positions(text, "}") # {}
    /\ Least(Positions(text, "{")) < Greatest(Positions(text, "}"))
    /\ JsonLoads(SubSeq(text, Least(Positions(text, "{")),
                              Greatest(Positions(text, "}"))))

\* C9: for every reply text, if the substring from the first "{" to the last
\* "}" parses as a JSON object the call returns that object with success =
\* true; otherwise (no "{", no "}", the last "}" before the first "{", or no
\* parse) it returns success = false with an error string and raw_response.
C9_EmbeddedJsonExtracted ==
    (Judged /\ gem.response.shape = "text") =>
        LET text == gem.response.text
        IN IF EmbeddedObjectParses(text)
           THEN /\ gem.result.success
                /\ gem.result.analysis =
                     SubSeq(text, Least(Positions(text, "{")),
                                  Greatest(Positions(text, "}")))
           ELSE /\ ~gem.result.success
                /\ gem.result.error # ""
                /\ gem.result.raw # "none"

\* C9 witness: text around an object with a member is dropped and the object
\* returned.
C9_Witness ==
    /\ Judged
    /\ gem.requests = 1
    /\ gem.response = TextResponse(<<"s", "{", "s", ":", "s", "}">>)
    /\ gem.result.success
    /\ gem.result.analysis = <<"{", "s", ":", "s", "}">>

-----------------------------------------------------------------------------
(* Properties of the Directory Watcher (checked under SpecWatcher).        *)

FileAt(path) == CHOOSE f \in Files : PathOf(f) = path

\* C10: a scan reports a file only if its modification time is strictly
\* after the cursor recorded at the end of the previous scan (at construction
\* for the first scan); a file whose modification time is the one the
\* previous scan read is not reported, and no modification is reported by
\* two scans.
C10_UnchangedFileNotReportedAgain ==
    \A i \in 1..Len(scan.modified_files) :
        LET e == scan.modified_files[i]
        IN /\ e.modified_time > history.cursor
           /\ e.modified_time # history.seen_before[FileAt(e.path)]
           /\ <<e.path, e.modified_time>> \notin history.reported_before

\* C10 witness: the second scan is over, it read scene1.json at the time the
\* first scan reported it, and did not report it.
C10_Witness ==
    /\ ~scan.running
    /\ history.scans = 2
    /\ \E f \in Files :
        /\ <<PathOf(f), mtime[f]>> \in history.reported_before
        /\ history.seen_before[f] = mtime[f]
        /\ history.seen[f] = mtime[f]
        /\ \A i \in 1..Len(scan.modified_files) : scan.modified_files[i].path # PathOf(f)

\* The latest scan has examined every file and is about to return.
ScanExaminedAll == scan.running /\ scan.glob = {} /\ scan.queue = <<>>

Reports(path) == \E i \in 1..Len(scan.modified_files) : scan.modified_files[i].path = path

\* C16: no modification of a watched file is lost: a matching, non-ignored
\* file that is written while a scan runs, after that scan examined it and
\* before the cursor moves to now, is reported by the next scan, even when
\* it is not written again.
C16_NoModificationLost ==
    ScanExaminedAll => \A f \in history.late : Reports(PathOf(f))

\* C17: within one scan watch_directories reports each modified path at
\* most once, whatever the watched directories and patterns: also when a
\* file matches several patterns or a directory is listed twice.
C17_PathReportedOnce ==
    \A i, j \in 1..Len(scan.modified_files) :
        scan.modified_files[i].path = scan.modified_files[j].path => i = j

-----------------------------------------------------------------------------
(* Properties of the watch loop (checked under SpecLoop).                  *)

\* The paths of a sequence of entries that hold one.
PathsOf(entries, field) == [i \in 1..Len(entries) |-> entries[i][field]]

\* C11: in the watch loop a failure on one file (it cannot be read, it holds
\* no JSON, or validation or the report raises) gives the outcome
\* {success: false, error, file_path} for that file only: the files of the
\* scan are all processed, each once and in order, and the loop stops only
\* when it is interrupted from outside.
C11_FileFailureNeverStopsLoop ==
    /\ \A i \in 1..Len(loop.done) :
        \/ loop.done[i].outcome.success
        \/ /\ DOMAIN loop.done[i].outcome = {"success", "error", "file_path"}
           /\ loop.done[i].outcome.error # ""
           /\ loop.done[i].outcome.file_path = loop.done[i].file_path
    /\ loop.at = "processing" =>
        PathsOf(loop.done, "file_path") \o PathsOf(loop.todo, "path")
            = PathsOf(scan.modified_files, "path")
    /\ loop.at = "stopped" => loop.cause = "KeyboardInterrupt"

\* C15: for a readable file that holds a JSON scene object,
\* process_scene_file validates, then writes the report to
\* reports/validation_<scene_id>_<timestamp>.html, then notifies (only when
\* notifications are enabled), and returns success = true with valid and
\* error_count taken from the scene's result; so it does under the default
\* configuration, whose report_format is "html".
C15_SceneFileProcessedInOrder ==
    \A i \in 1..Len(loop.done) :
        LET processed == loop.done[i]
            held == content[processed.file_path]
            results == validate_scene(validation_rules, held.doc, clock).value
        IN (held.kind = "json" /\ HasGet(held.doc)) =>
            /\ processed.outcome.success
            /\ processed.effects = <<"validate", "write">> \o Notification(trigger_config)
            /\ processed.outcome.valid = results.valid
            /\ processed.outcome.error_count = Len(results.errors)
            /\ processed.outcome.report_path \in
                    {ReportPath(results.scene_id, now) : now \in 0..MaxTime}

-----------------------------------------------------------------------------
(* Properties of the HTTP facade (checked under SpecApi).                  *)

Validating == http.route \in {"/validate/scene", "/validate/project"}

\* What the validator does on the body the request carried.
ValidatorOn(route, body) ==
    IF route = "/validate/scene"
    THEN validate_scene(validation_rules, AsDocument(body), clock)
    ELSE validate_project(validation_rules, body.array, clock)

\* C12: POST /validate/scene and POST /validate/project answer a request
\* without a body, or with a body that is not well-formed JSON, with 400;
\* they answer 500 only when the body was parsed and validation itself
\* raised.
C12_UnparsedBodyIs400 ==
    Validating =>
        /\ http.body.kind \in {"missing", "malformed"} => http.response.status = 400
        /\ http.response.status = 500 =>
            /\ http.body.kind \notin {"missing", "malformed"}
            /\ ValidatorOn(http.route, http.body).kind = "raise"

\* C13: the response of GET /config holds no api_key entry and holds every
\* other top-level entry of the loaded configuration with its value
\* unchanged.
C13_ConfigWithoutCredential ==
    http.route = "/config" =>
        LET items == ConfigItems(config, config_rest)
            shown == http.response.results
        IN /\ http.response.status = 200
           /\ "api_key" \notin DOMAIN shown
           /\ DOMAIN shown = DOMAIN items \ {"api_key"}
           /\ \A k \in DOMAIN shown : shown[k] = items[k]

\* C13 witness: the configuration holds a credential and other entries; the
\* response holds the other entries.
C13_Witness ==
    /\ http.route = "/config"
    /\ "api_key" \in DOMAIN config_rest
    /\ config_rest["api_key"] = JStr("secret")
    /\ {"project_id", "report_format"} \subseteq DOMAIN http.response.results
    /\ "api_key" \notin DOMAIN http.response.results

\* C18: the facade agrees with the validator on every well-formed body:
\* POST /validate/scene answers every JSON object, the empty one included,
\* with 200 and the result of validate_scene on it, and POST
\* /validate/project answers every JSON array, the empty one included, with
\* 200 and the result of validate_project on it.
C18_FacadeAgreesWithValidator ==
    /\ (http.route = "/validate/scene" /\ http.body.kind = "object") =>
        /\ http.response.status = 200
        /\ Returned(http.response.results) = ValidatorOn(http.route, http.body)
    /\ (http.route = "/validate/project" /\ http.body.kind = "array") =>
        /\ http.response.status = 200
        /\ Returned(http.response.results) = ValidatorOn(http.route, http.body)

-----------------------------------------------------------------------------
(* Determinism of validate_scene (checked under SpecTwice).                *)

\* C14 as claimed: two calls of validate_scene on the same scene under the
\* same rules, at any two times, return results equal in every field, the
\* timestamp among them.
C14_SameResultAtAnyTime ==
    pc = "revalidated" => again = ret

\* The fields of a SceneResult other than its timestamp.
UntimedFields == {"scene_id", "valid", "errors", "warnings", "suggestions"}

\* C14, amended: two calls of validate_scene on the same scene under the
\* same rules, at any two times, both raise or return results equal in every
\* field but the timestamp, and no step of a call changes the scene, the
\* rules or the configuration.
C14_SameResultButTimestamp ==
    [][/\ validation_rules' = validation_rules
       /\ config' = config
       /\ pc' # "idle" /\ pc # "idle" => call' = call
       /\ pc' = "revalidated" =>
            /\ again'.kind = ret'.kind
            /\ again'.exc = ret'.exc
            /\ ret'.kind = "return" =>
                \A field \in UntimedFields : again'.value[field] = ret'.value[field]]_vars

\* C14 witness: the second call was made later than the first on a scene
\* with a missing field; the results differ in the timestamp alone.
C14_Witness ==
    /\ pc = "revalidated"
    /\ ret.kind = "return"
    /\ again.kind = "return"
    /\ ret.value.errors # <<>>
    /\ again.value.timestamp # ret.value.timestamp
    /\ \A field \in UntimedFields : again.value[field] = ret.value[field]

====
